---- MODULE Spec2Model ----
(***************************************************************************)
(* Model of agentna's dual-index memory layer: the Semantic Index          *)
(* (EmbeddingStore), the Dependency Graph (KnowledgeGraph, a networkx      *)
(* DiGraph), the HybridStore that writes both, the fingerprint table of    *)
(* Project and the Indexer that keeps them in sync with the file tree.     *)
(***************************************************************************)
EXTENDS Integers, Sequences, FiniteSets, TLC

(***************************************************************************)
(* The file tree and the identifiers                                       *)
(***************************************************************************)
Files == {"a", "b"}

FileOrder == <<"a", "b">>

Other(f) == IF f = "a" THEN "b" ELSE "a"

NoFile == "nofile"

NoPath == "nopath"

\* Contents a file can have.  "plain": a file without symbols (generic /
\* markdown parser, or a Python file that only yields the file-level chunk).
\* "calls": a Python file with one function, an import and a call whose
\* target id is the function id of the other file.  "deep": a Python file
\* on which ast.parse raises something else than SyntaxError.
Contents == {"plain", "calls", "deep"}

\* generate_chunk_id / generate_symbol_id: ids are built from the file path.
\* <<"span1", f>> is "f:1:n1", <<"span2", f>> is "f:1:n2" (another line
\* count), <<"function", f>> is "function:f:g", <<"file", f>> is the
\* synthetic "file:f", <<"module", "m">> is "module:m".
ModuleId == <<"module", "m">>

Ids == (({"span1", "span2", "function", "file"}) \X Files) \cup {ModuleId}

Rel(s, t, ty) == [source |-> s, target |-> t, type |-> ty]

\* hash_file: SHA-256 of the bytes, taken as collision free.
hash_file(c) == CASE c = "plain" -> 11 [] c = "calls" -> 22 [] c = "deep" -> 33

\* parser.parse raises (no handler for it in parse or in index_file).
ParseRaises(c) == c = "deep"

\* parser.parse: the chunks of a file, as the set of their ids.
ParseChunks(f, c) ==
    IF c = "calls" THEN {<<"span2", f>>, <<"function", f>>}
    ELSE {<<"span1", f>>}

\* parser.extract_relationships: imports and contains edges leave the
\* synthetic file id, the calls edge leaves the function of the file.  The
\* target of a calls edge is "function:" + _get_call_name(call), and
\* _get_name returns str(value) for a constant callee, so the target can be
\* any id; here it is the function id of the other file.
ParseRels(f, c) ==
    IF c = "calls"
    THEN << Rel(<<"file", f>>, ModuleId, "imports"),
            Rel(<<"function", f>>, <<"function", Other(f)>>, "calls"),
            Rel(<<"file", f>>, <<"function", f>>, "contains") >>
    ELSE << >>

(***************************************************************************)
(* Partial functions                                                       *)
(***************************************************************************)
EmptyFn == [x \in {} |-> 0]

Restrict(fn, S) == [x \in (DOMAIN fn) \cap S |-> fn[x]]

Upsert(fn, gn) ==
    [x \in (DOMAIN fn) \cup (DOMAIN gn) |-> IF x \in DOMAIN gn THEN gn[x] ELSE fn[x]]

Range(s) == {s[i] : i \in 1..Len(s)}

(***************************************************************************)
(* EmbeddingStore: chunk id -> file_path metadata                          *)
(***************************************************************************)
add_chunks(ch, ids, f) == Upsert(ch, [i \in ids |-> f])

delete_by_file(ch, f) == Restrict(ch, {i \in DOMAIN ch : ch[i] # f})

get_chunks_by_file(ch, f) == {i \in DOMAIN ch : ch[i] = f}

(***************************************************************************)
(* KnowledgeGraph: nodes is node id -> file_path attribute (NoPath for a   *)
(* node without attributes), edges is <<source, target>> -> relation type  *)
(***************************************************************************)
EmptyGraph == [nodes |-> EmptyFn, edges |-> EmptyFn]

\* add_node that replaces the node, losing the edges it already had
add_node_replaces(G, id, f) ==
    LET H == [nodes |-> Restrict(G.nodes, (DOMAIN G.nodes) \ {id}),
              edges |-> Restrict(G.edges, {e \in DOMAIN G.edges : e[1] # id /\ e[2] # id})]
    IN [H EXCEPT !.nodes = Upsert(H.nodes, [i \in {id} |-> f])]

add_node(G, id, f) == [G EXCEPT !.nodes = Upsert(G.nodes, [i \in {id} |-> f])]

\* DiGraph.add_edge creates missing endpoints without attributes and keeps
\* one edge per (source, target).
add_relationship(G, r) ==
    [nodes |-> Upsert([i \in {r.source, r.target} |-> NoPath], G.nodes),
     edges |-> Upsert(G.edges, [e \in {<<r.source, r.target>>} |-> r.type])]

RECURSIVE add_relationships(_, _)
add_relationships(G, rs) ==
    IF rs = << >> THEN G ELSE add_relationships(add_relationship(G, Head(rs)), Tail(rs))

RECURSIVE add_nodes(_, _, _)
add_nodes(G, ids, f) ==
    IF ids = {} THEN G
    ELSE LET i == CHOOSE x \in ids : TRUE
         IN add_nodes(add_node(G, i, f), ids \ {i}, f)

get_nodes_by_file(G, f) == {i \in DOMAIN G.nodes : G.nodes[i] = f}

\* remove_nodes_by_file that forgets the edges leaving the removed nodes
remove_nodes_by_file_keeps_out_edges(G, f) ==
    LET gone == get_nodes_by_file(G, f)
    IN [nodes |-> Restrict(G.nodes, (DOMAIN G.nodes) \ gone),
        edges |-> Restrict(G.edges, {e \in DOMAIN G.edges : e[2] \notin gone})]

\* DiGraph.remove_node drops the node and every edge touching it.
remove_nodes_by_file(G, f) ==
    LET gone == get_nodes_by_file(G, f)
    IN [nodes |-> Restrict(G.nodes, (DOMAIN G.nodes) \ gone),
        edges |-> Restrict(G.edges, {e \in DOMAIN G.edges : e[1] \notin gone /\ e[2] \notin gone})]

OutEdges(G, S) == {e \in DOMAIN G.edges : e[1] \in S}

\* self._graph.predecessors(n) / self._graph.successors(n)
predecessors(G, n) == {e[1] : e \in {x \in DOMAIN G.edges : x[2] = n}}

successors(G, n) == {e[2] : e \in {x \in DOMAIN G.edges : x[1] = n}}

neighbours(G, dir, n) == IF dir = "in" THEN predecessors(G, n) ELSE successors(G, n)

RECURSIVE SetToSeq(_)
SetToSeq(S) ==
    IF S = {} THEN << >>
    ELSE LET x == CHOOSE y \in S : TRUE IN <<x>> \o SetToSeq(S \ {x})

\* the while loop of get_dependents / get_dependencies: queue holds
\* <<node, depth>> pairs, found is the set that is returned
RECURSIVE traverse(_, _, _, _, _, _)
traverse(G, dir, max_depth, queue, visited, found) ==
    IF queue = << >> THEN found
    ELSE LET current == Head(queue)[1]
             depth == Head(queue)[2]
         IN IF current \in visited \/ depth > max_depth
            THEN traverse(G, dir, max_depth, Tail(queue), visited, found)
            ELSE LET seen == visited \cup {current}
                     fresh == SetToSeq({n \in neighbours(G, dir, current) : n \notin seen})
                 IN traverse(G, dir, max_depth,
                             Tail(queue) \o [i \in 1..Len(fresh) |-> <<fresh[i], depth + 1>>],
                             seen, found \cup Range(fresh))

\* get_dependents that counts the start node among the dependents
get_dependents_start_found(G, node_id, max_depth) ==
    IF node_id \notin DOMAIN G.nodes THEN {}
    ELSE traverse(G, "in", max_depth, << <<node_id, 0>> >>, {}, {node_id})

get_dependents(G, node_id, max_depth) ==
    IF node_id \notin DOMAIN G.nodes THEN {}
    ELSE traverse(G, "in", max_depth, << <<node_id, 0>> >>, {}, {})

get_dependencies(G, node_id, max_depth) ==
    IF node_id \notin DOMAIN G.nodes THEN {}
    ELSE traverse(G, "out", max_depth, << <<node_id, 0>> >>, {}, {})

\* KnowledgeGraph.remove_node
remove_node(G, id) ==
    IF id \in DOMAIN G.nodes
    THEN [nodes |-> Restrict(G.nodes, (DOMAIN G.nodes) \ {id}),
          edges |-> Restrict(G.edges, {e \in DOMAIN G.edges : e[1] # id /\ e[2] # id})]
    ELSE G

\* DiGraph.successors / predecessors raise NetworkXError for an id that is
\* not in the graph; get_relationships has no handler for it
NetworkXError == [raised |-> TRUE, rels |-> {}]

\* KnowledgeGraph.get_relationships(node_id, direction="both")
get_relationships(G, node_id) ==
    IF node_id \notin DOMAIN G.nodes THEN NetworkXError
    ELSE [raised |-> FALSE,
          rels |-> {Rel(e[1], e[2], G.edges[e]) :
                       e \in {x \in DOMAIN G.edges : x[1] = node_id \/ x[2] = node_id}}]

\* find_path returns None when networkx raises NetworkXNoPath or NodeNotFound
None == << >>

\* nx.shortest_path on an unweighted graph: breadth-first search along the
\* successors, frontier holds the paths found so far
RECURSIVE shortest_path(_, _, _, _)
shortest_path(G, target, frontier, visited) ==
    IF frontier = << >> THEN None
    ELSE LET p == Head(frontier)
             last == p[Len(p)]
         IN IF last = target THEN p
            ELSE LET fresh == SetToSeq({n \in successors(G, last) : n \notin visited})
                 IN shortest_path(G, target,
                                  Tail(frontier) \o [i \in 1..Len(fresh) |-> Append(p, fresh[i])],
                                  visited \cup Range(fresh))

\* find_path with source and target swapped
find_path_swapped(G, source_id, target_id) ==
    IF source_id \notin DOMAIN G.nodes \/ target_id \notin DOMAIN G.nodes THEN None
    ELSE shortest_path(G, source_id, << <<target_id>> >>, {target_id})

\* KnowledgeGraph.find_path
find_path(G, source_id, target_id) ==
    IF source_id \notin DOMAIN G.nodes \/ target_id \notin DOMAIN G.nodes THEN None
    ELSE shortest_path(G, target_id, << <<source_id>> >>, {source_id})

\* ImpactAnalyzer.get_dependency_chain: find_path(symbol_id, dep) for every
\* dep the traversal returns, kept when it is not None
get_dependency_chain(G, symbol_id, direction, max_depth) ==
    LET deps == IF direction = "dependents"
                THEN get_dependents(G, symbol_id, max_depth)
                ELSE get_dependencies(G, symbol_id, max_depth)
    IN {find_path(G, symbol_id, dep) : dep \in deps} \ {None}

\* KnowledgeGraph.save for the attributes the indexer writes: the JSON data
\* has a record per node (its id and attributes) and a record per edge
save_graph(G) ==
    [nodes |-> {[id |-> i, file_path |-> G.nodes[i]] : i \in DOMAIN G.nodes},
     edges |-> {[source |-> e[1], target |-> e[2], relation_type |-> G.edges[e]] :
                  e \in DOMAIN G.edges}]

\* KnowledgeGraph._load: add_node for every node record, then add_edge for
\* every edge record
load_graph(data) ==
    LET N == [nodes |-> [i \in {n.id : n \in data.nodes} |->
                           (CHOOSE n \in data.nodes : n.id = i).file_path],
              edges |-> EmptyFn]
        E == [e \in {<<r.source, r.target>> : r \in data.edges} |->
                (CHOOSE r \in data.edges : <<r.source, r.target>> = e).relation_type]
    IN [nodes |-> Upsert([i \in UNION {{e[1], e[2]} : e \in DOMAIN E} |-> NoPath], N.nodes),
        edges |-> E]

(***************************************************************************)
(* State                                                                   *)
(***************************************************************************)
VARIABLES
    disk,        \* file -> content, NoFile when iter_files does not yield it
    unreadable,  \* files whose bytes cannot be read (open raises)
    fp,          \* file_hashes.json: file -> hash, a partial function
    chunks,      \* the code collection of the EmbeddingStore
    graph,       \* KnowledgeGraph._graph
    op,          \* operation started last: "none", "full", "incr", "single", "remove"
    pc,          \* position inside the running operation, "idle" when none runs
    queue,       \* files index_files still has to visit
    cur,         \* file index_file is working on
    content,     \* text read by index_file
    stats,       \* counters of index_files, deleted_files of incremental_index
    deleted,     \* deleted_files of incremental_index
    result,      \* "none", "ok" (the operation returned) or "raised"
    old,         \* what the index held for the file when index_file was entered
    outcome,     \* how the latest index_file ended
    removed,     \* file and node ids of the latest single remove_file call
    fp0,         \* fingerprint table when the operation was entered
    unchanged0,  \* listed files whose hash matched fp0 when the sync was entered
    clean,       \* an incremental sync completed and nothing happened since
    chain,       \* "synced": a sync completed and every change of the tree since
                 \* a full sync was followed by a completed incremental sync;
                 \* "changed": one file changed since then; "none" otherwise
    graph_file,  \* the graph JSON file, as a store opened later reads it
    watch,       \* the ChangeHandler: clock, pending_changes, the position and
                 \* the locals of process_pending, what on_change was given
    query        \* latest traversal query on the graph and what it returned

vars == <<disk, unreadable, fp, chunks, graph, op, pc, queue, cur, content,
          stats, deleted, result, old, outcome, removed, fp0, unchanged0, clean, chain,
          graph_file, watch, query>>

diskVars == <<disk, unreadable>>

indexVars == <<fp, chunks, graph>>

NoStat == -1

ZeroStats == [files_indexed |-> 0, total_chunks |-> 0, total_relationships |-> 0,
              deleted_files |-> NoStat]

NoOld == [file |-> NoFile, chunks |-> {}, nodes |-> {}, fp |-> 0]

NoRemoved == [file |-> NoFile, ids |-> {}]

NoQuery == [kind |-> "none", id |-> NoFile, max_depth |-> 0, result |-> {}]

\* ChangeHandler.__init__, no process_pending running, nothing delivered
NoWatch == [clock |-> 0, pending_changes |-> EmptyFn, pc |-> "idle", now |-> 0,
            items |-> << >>, to_process |-> << >>, last_event |-> EmptyFn,
            elapsed |-> EmptyFn, delivered |-> EmptyFn]

\* Project.iter_files
iter_files == SelectSeq(FileOrder, LAMBDA f : disk[f] # NoFile)

Listed == {f \in Files : disk[f] # NoFile}

\* stored_hashes.get(f)
FpEntry(table, f) == IF f \in DOMAIN table THEN table[f] ELSE 0

Init ==
    /\ disk = [f \in Files |-> NoFile]
    /\ unreadable = {}
    /\ fp = EmptyFn
    /\ chunks = EmptyFn
    /\ graph = EmptyGraph
    /\ op = "none"
    /\ pc = "idle"
    /\ queue = << >>
    /\ cur = NoFile
    /\ content = NoFile
    /\ stats = ZeroStats
    /\ deleted = {}
    /\ result = "none"
    /\ old = NoOld
    /\ outcome = "none"
    /\ removed = NoRemoved
    /\ fp0 = EmptyFn
    /\ unchanged0 = {}
    /\ clean = FALSE
    /\ chain = "none"
    /\ graph_file = save_graph(EmptyGraph)
    /\ watch = NoWatch
    /\ query = NoQuery

(***************************************************************************)
(* The file tree changes between operations                                *)
(***************************************************************************)
ResetHistory ==
    /\ op' = "none"
    /\ stats' = ZeroStats
    /\ deleted' = {}
    /\ result' = "none"
    /\ old' = NoOld
    /\ outcome' = "none"
    /\ removed' = NoRemoved
    /\ fp0' = EmptyFn
    /\ unchanged0' = {}
    /\ clean' = FALSE
    /\ query' = NoQuery

WriteFile(f, c) ==
    /\ pc = "idle"
    /\ disk[f] # c
    /\ disk' = [disk EXCEPT ![f] = c]
    /\ chain' = IF chain = "synced" THEN "changed" ELSE "none"
    /\ ResetHistory
    /\ UNCHANGED <<unreadable, fp, chunks, graph, graph_file, watch, pc, queue, cur, content>>

DeleteFile(f) ==
    /\ pc = "idle"
    /\ disk[f] # NoFile
    /\ disk' = [disk EXCEPT ![f] = NoFile]
    /\ unreadable' = unreadable \ {f}
    /\ chain' = IF chain = "synced" THEN "changed" ELSE "none"
    /\ ResetHistory
    /\ UNCHANGED <<fp, chunks, graph, graph_file, watch, pc, queue, cur, content>>

Chmod(f) ==
    /\ pc = "idle"
    /\ disk[f] # NoFile
    /\ unreadable' = IF f \in unreadable THEN unreadable \ {f} ELSE unreadable \cup {f}
    /\ chain' = "none"
    /\ ResetHistory
    /\ UNCHANGED <<disk, fp, chunks, graph, graph_file, watch, pc, queue, cur, content>>

(***************************************************************************)
(* HybridStore                                                             *)
(***************************************************************************)
\* HybridStore.remove_file: self.embeddings.delete_by_file(file_path)
store_remove_chunks(ch, f) == delete_by_file(ch, f)

\* remove_file that leaves the graph alone
store_remove_nodes_skipped(G, f) == G

\* HybridStore.remove_file: self.graph.remove_nodes_by_file(file_path)
store_remove_nodes(G, f) == remove_nodes_by_file(G, f)

\* HybridStore.index_chunks: a node per chunk, then the relationships
index_chunks_graph(G, ids, rels, f) == add_relationships(add_nodes(G, ids, f), rels)

\* HybridStore.search(include_related=True): the relationships looked up for
\* every chunk the vector search can return
search(ch, G) == [i \in DOMAIN ch |-> get_relationships(G, i)]

\* clear that leaves the graph alone
store_clear_graph_skipped(G) == G

\* HybridStore.clear
store_clear_graph(G) == EmptyGraph

(***************************************************************************)
(* Indexer.index_files / Indexer.index_file                                *)
(***************************************************************************)
\* index_files goes to the next file, or returns to its caller
NextFile(q) ==
    IF q = << >>
    THEN pc' = "finish" /\ cur' = NoFile /\ queue' = << >>
    ELSE pc' = "read" /\ cur' = Head(q) /\ queue' = Tail(q)

\* an exception leaves index_file, index_files and the operation
Raise ==
    /\ pc' = "idle"
    /\ queue' = << >>
    /\ cur' = NoFile
    /\ content' = NoFile
    /\ result' = "raised"
    /\ clean' = FALSE
    /\ chain' = "none"

\* index_file: content = file_path.read_text(...), except Exception: return [], []
IndexFileRead ==
    /\ pc = "read"
    /\ old' = [file |-> cur,
               chunks |-> get_chunks_by_file(chunks, cur),
               nodes |-> get_nodes_by_file(graph, cur),
               fp |-> FpEntry(fp, cur)]
    /\ removed' = NoRemoved
    /\ IF cur \in unreadable \/ disk[cur] = NoFile
       THEN /\ outcome' = "readfail"
            /\ content' = NoFile
            /\ NextFile(queue)
       ELSE /\ outcome' = "running"
            /\ content' = disk[cur]
            /\ pc' = "remove"
            /\ UNCHANGED <<cur, queue>>
    /\ UNCHANGED <<query, graph_file, watch, diskVars, indexVars, op, stats, deleted, result, fp0, unchanged0, clean, chain>>

\* index_file that saves the hash before the file is parsed and written
IndexFileRemove_hash_first ==
    /\ pc = "remove"
    /\ removed' = [file |-> cur, ids |-> get_nodes_by_file(graph, cur)]
    /\ chunks' = store_remove_chunks(chunks, cur)
    /\ graph' = store_remove_nodes(graph, cur)
    /\ fp' = Upsert(fp, [f \in {cur} |-> hash_file(disk[cur])])
    /\ pc' = "parse"
    /\ UNCHANGED <<query, graph_file, watch, diskVars, op, queue, cur, content, stats, deleted, result,
                   old, outcome, fp0, unchanged0, clean, chain>>

\* index_file: self.store.remove_file(str(rel_path))
IndexFileRemove ==
    /\ pc = "remove"
    /\ removed' = [file |-> cur, ids |-> get_nodes_by_file(graph, cur)]
    /\ chunks' = store_remove_chunks(chunks, cur)
    /\ graph' = store_remove_nodes(graph, cur)
    /\ pc' = "parse"
    /\ UNCHANGED <<query, graph_file, watch, diskVars, fp, op, queue, cur, content, stats, deleted, result,
                   old, outcome, fp0, unchanged0, clean, chain>>

\* index_file: parser.parse / parser.extract_relationships
IndexFileParse ==
    /\ pc = "parse"
    /\ IF ParseRaises(content)
       THEN /\ outcome' = "parsefail"
            /\ Raise
       ELSE /\ pc' = "write"
            /\ UNCHANGED <<outcome, queue, cur, content, result, clean, chain>>
    /\ UNCHANGED <<query, graph_file, watch, diskVars, indexVars, op, stats, deleted, old, removed, fp0, unchanged0>>

\* index_file that treats a failed index_chunks like a file it could not
\* read and goes on
IndexFileWrite_skips ==
    /\ pc = "write"
    /\ \E fails \in {"no", "add_chunks", "save"} :
         IF fails # "no"
         THEN /\ outcome' = IF fails = "save" THEN "savefail" ELSE "writefail"
              /\ content' = NoFile
              /\ NextFile(queue)
              /\ UNCHANGED <<chunks, graph, result, clean, chain>>
         ELSE /\ LET ids == ParseChunks(cur, content)
                     rels == ParseRels(cur, content)
                 IN IF ids = {}
                    THEN UNCHANGED <<chunks, graph>>
                    ELSE /\ chunks' = add_chunks(chunks, ids, cur)
                         /\ graph' = index_chunks_graph(graph, ids, rels, cur)
              /\ pc' = "hash"
              /\ UNCHANGED <<outcome, queue, cur, content, result, clean, chain>>
    /\ UNCHANGED <<query, graph_file, watch, diskVars, fp, op, stats, deleted, old, removed, fp0, unchanged0>>

\* index_file: self.store.index_chunks(chunks, relationships); the upsert of
\* the EmbeddingStore may raise MemoryError("Failed to add chunks") before
\* anything is written, and graph.save may raise MemoryError("Failed to save
\* knowledge graph") after chunks and nodes were added
IndexFileWrite ==
    /\ pc = "write"
    /\ \E fails \in {"no", "add_chunks", "save"} :
         LET ids == ParseChunks(cur, content)
             rels == ParseRels(cur, content)
         IN /\ IF ids = {} \/ fails = "add_chunks"
               THEN UNCHANGED <<chunks, graph>>
               ELSE /\ chunks' = add_chunks(chunks, ids, cur)
                    /\ graph' = index_chunks_graph(graph, ids, rels, cur)
            /\ IF fails # "no" /\ ids # {}
               THEN /\ outcome' = IF fails = "save" THEN "savefail" ELSE "writefail"
                    /\ Raise
               ELSE /\ pc' = "hash"
                    /\ UNCHANGED <<outcome, queue, cur, content, result, clean, chain>>
    /\ UNCHANGED <<query, graph_file, watch, diskVars, fp, op, stats, deleted, old, removed, fp0, unchanged0>>

\* index_file: stored_hashes[rel] = hash_file(file_path); save_file_hashes;
\* then the counters of index_files
IndexFileHash ==
    /\ pc = "hash"
    /\ fp' = Upsert(fp, [f \in {cur} |-> hash_file(disk[cur])])
    /\ outcome' = "ok"
    /\ stats' = IF op \in {"full", "incr"} /\ ParseChunks(cur, content) # {}
                THEN [stats EXCEPT
                        !.files_indexed = @ + 1,
                        !.total_chunks = @ + Cardinality(ParseChunks(cur, content)),
                        !.total_relationships = @ + Len(ParseRels(cur, content))]
                ELSE stats
    /\ content' = NoFile
    /\ NextFile(queue)
    /\ UNCHANGED <<query, graph_file, watch, diskVars, chunks, graph, op, deleted, result, old, removed,
                   fp0, unchanged0, clean, chain>>

(***************************************************************************)
(* Indexer.full_index, Indexer.incremental_index, single-file calls        *)
(***************************************************************************)
StartOp ==
    /\ old' = NoOld
    /\ outcome' = "none"
    /\ removed' = NoRemoved
    /\ content' = NoFile
    /\ stats' = ZeroStats
    /\ fp0' = fp

\* full_index: store.clear(); save_file_hashes({}); files = list(iter_files())
StartFull ==
    /\ pc = "idle"
    /\ StartOp
    /\ op' = "full"
    /\ chunks' = EmptyFn
    /\ graph' = store_clear_graph(graph)
    /\ fp' = EmptyFn
    /\ NextFile(iter_files)
    /\ deleted' = {}
    /\ result' = "none"
    /\ unchanged0' = {}
    /\ clean' = FALSE
    /\ UNCHANGED <<query, graph_file, watch, diskVars, chain>>

\* files_to_index without the comparison of the hashes
files_to_index_all == iter_files

\* incremental_index: files_to_index
files_to_index == SelectSeq(iter_files, LAMBDA f : f \notin DOMAIN fp \/ fp[f] # hash_file(disk[f]))

\* deleted_files computed against the stored keys themselves
deleted_files_none == (DOMAIN fp) \ (DOMAIN fp)

\* incremental_index: deleted_files
deleted_files == (DOMAIN fp) \ Listed

\* incremental_index up to the scan: hash_file of every listed file raises
\* on a file that cannot be read
StartIncr ==
    /\ pc = "idle"
    /\ StartOp
    /\ op' = "incr"
    /\ unchanged0' = {f \in Listed : FpEntry(fp, f) = hash_file(disk[f])}
    /\ IF Listed \cap unreadable # {}
       THEN /\ pc' = "idle"
            /\ result' = "raised"
            /\ clean' = FALSE
            /\ chain' = "none"
            /\ deleted' = {}
            /\ UNCHANGED <<queue, cur>>
       ELSE /\ pc' = "delete"
            /\ queue' = files_to_index
            /\ deleted' = deleted_files
            /\ result' = "none"
            /\ UNCHANGED <<cur, clean, chain>>
    /\ UNCHANGED <<query, graph_file, watch, diskVars, indexVars>>

RECURSIVE remove_files_chunks(_, _)
remove_files_chunks(ch, fs) ==
    IF fs = {} THEN ch
    ELSE LET f == CHOOSE x \in fs : TRUE
         IN remove_files_chunks(store_remove_chunks(ch, f), fs \ {f})

RECURSIVE remove_files_nodes(_, _)
remove_files_nodes(G, fs) ==
    IF fs = {} THEN G
    ELSE LET f == CHOOSE x \in fs : TRUE
         IN remove_files_nodes(store_remove_nodes(G, f), fs \ {f})

\* incremental_index: remove_file and del for every deleted file, then
\* save_file_hashes(stored_hashes)
IncrRemoveDeleted ==
    /\ pc = "delete"
    /\ chunks' = remove_files_chunks(chunks, deleted)
    /\ graph' = remove_files_nodes(graph, deleted)
    /\ fp' = Restrict(fp, (DOMAIN fp) \ deleted)
    /\ NextFile(queue)
    /\ UNCHANGED <<query, graph_file, watch, diskVars, op, content, stats, deleted, result, old, outcome,
                   removed, fp0, unchanged0, clean, chain>>

\* the operation returns (for a sync: stats["deleted_files"], update_sync_time,
\* store.save)
Finish ==
    /\ pc = "finish"
    /\ stats' = IF op = "incr"
                THEN [stats EXCEPT !.deleted_files = Cardinality(deleted)]
                ELSE stats
    /\ clean' = (op = "incr")
    /\ chain' = IF op = "full" \/ (op = "incr" /\ chain # "none") THEN "synced" ELSE "none"
    /\ result' = "ok"
    /\ pc' = "idle"
    /\ UNCHANGED <<query, graph_file, watch, diskVars, indexVars, op, queue, cur, content, deleted, old, outcome,
                   removed, fp0, unchanged0>>

\* Indexer.index_file(path, force) called on its own (the watcher callback
\* calls it with force=True)
StartIndexFile(f, force) ==
    /\ pc = "idle"
    /\ disk[f] # NoFile
    /\ StartOp
    /\ op' = "single"
    /\ deleted' = {}
    /\ unchanged0' = {}
    /\ clean' = FALSE
    /\ chain' = "none"
    /\ IF ~force /\ f \in unreadable
       THEN \* hash_file raises before the try block
            /\ result' = "raised"
            /\ UNCHANGED <<pc, queue, cur>>
       ELSE IF ~force /\ FpEntry(fp, f) = hash_file(disk[f])
       THEN \* the file hasn't changed
            /\ result' = "ok"
            /\ UNCHANGED <<pc, queue, cur>>
       ELSE /\ result' = "none"
            /\ pc' = "read"
            /\ cur' = f
            /\ queue' = << >>
    /\ UNCHANGED <<query, graph_file, watch, diskVars, indexVars>>

\* Indexer.remove_file(path): store.remove_file, delete the fingerprint
IndexerRemoveFile(f) ==
    /\ pc = "idle"
    /\ disk[f] = NoFile
    /\ f \in DOMAIN fp \/ get_chunks_by_file(chunks, f) # {}
    /\ old' = NoOld
    /\ outcome' = "none"
    /\ content' = NoFile
    /\ stats' = ZeroStats
    /\ fp0' = fp
    /\ op' = "remove"
    /\ removed' = [file |-> f, ids |-> get_nodes_by_file(graph, f)]
    /\ chunks' = store_remove_chunks(chunks, f)
    /\ graph' = store_remove_nodes(graph, f)
    /\ fp' = Restrict(fp, (DOMAIN fp) \ {f})
    /\ result' = "ok"
    /\ clean' = FALSE
    /\ chain' = "none"
    /\ deleted' = {}
    /\ unchanged0' = {}
    /\ UNCHANGED <<query, graph_file, watch, diskVars, pc, queue, cur>>

Next ==
    \/ \E f \in Files, c \in Contents : WriteFile(f, c)
    \/ \E f \in Files : DeleteFile(f)
    \/ \E f \in Files : Chmod(f)
    \/ StartFull
    \/ StartIncr
    \/ IncrRemoveDeleted
    \/ \E f \in Files, force \in BOOLEAN : StartIndexFile(f, force)
    \/ \E f \in Files : IndexerRemoveFile(f)
    \/ IndexFileRead
    \/ IndexFileRemove
    \/ IndexFileParse
    \/ IndexFileWrite
    \/ IndexFileHash
    \/ Finish

Spec == Init /\ [][Next]_vars

TypeOK ==
    /\ disk \in [Files -> Contents \cup {NoFile}]
    /\ unreadable \subseteq Files
    /\ DOMAIN fp \subseteq Files
    /\ DOMAIN chunks \subseteq Ids
    /\ DOMAIN graph.nodes \subseteq Ids
    /\ op \in {"none", "full", "incr", "single", "remove", "open"}
    /\ chain \in {"none", "synced", "changed"}

(***************************************************************************)
(* Properties of the indexer and the hybrid store                          *)
(***************************************************************************)
\* the relationships leaving a set of nodes, with their types
OutRels(G, S) == {<<e, G.edges[e]>> : e \in OutEdges(G, S)}

\* what the index holds for one file
FileView(f) ==
    [fp |-> FpEntry(fp, f),
     chunks |-> get_chunks_by_file(chunks, f),
     nodes |-> get_nodes_by_file(graph, f),
     rels |-> OutRels(graph, get_nodes_by_file(graph, f))]

\* C1: whenever no operation is running, for every file path the chunk ids
\* of the Semantic Index with that path are the node ids of the graph with
\* that file_path.
C1_NodeChunkBijection ==
    pc = "idle" =>
        \A f \in Files : get_chunks_by_file(chunks, f) = get_nodes_by_file(graph, f)

C1_Witness ==
    /\ pc = "idle"
    /\ result = "ok"
    /\ \A f \in Files : Cardinality(get_chunks_by_file(chunks, f)) = 2
    /\ \E i \in DOMAIN graph.nodes : graph.nodes[i] = NoPath

\* C2: during an incremental sync no step changes the fingerprint, the
\* chunks, the nodes or the outgoing relationships of a file whose hash
\* matched its fingerprint when the sync was entered.
C2_UnchangedSkipped ==
    [][op' = "incr" /\ pc # "idle" =>
         \A f \in unchanged0 : FileView(f)' = FileView(f)]_vars

\* C3: right after remove_file(f) the file has no chunk and no node, and no
\* relationship leaves an id that was a node of f before the call.
AfterRemove ==
    /\ removed.file # NoFile
    /\ pc \in {"parse", "write", "idle"}
    /\ outcome \in {"running", "none", "parsefail", "writefail"}

C3_CascadeDelete ==
    AfterRemove =>
        /\ get_chunks_by_file(chunks, removed.file) = {}
        /\ get_nodes_by_file(graph, removed.file) = {}
        /\ OutEdges(graph, removed.ids) = {}

C3_Witness ==
    /\ AfterRemove
    /\ <<"function", removed.file>> \in removed.ids
    /\ <<"function", Other(removed.file)>> \in DOMAIN graph.nodes
    /\ DOMAIN graph.edges # {}

\* C4: an incremental sync entered right after a completed incremental sync,
\* with nothing changed in between, changes neither chunks, graph nor
\* fingerprints in any of its steps, does not raise and returns
\* files_indexed = 0 and deleted_files = 0.
C4_IdempotentReindex ==
    [][clean /\ op' = "incr" =>
         /\ UNCHANGED indexVars
         /\ result' # "raised"
         /\ (pc' = "idle" => stats'.files_indexed = 0 /\ stats'.deleted_files = 0)]_vars

C4_Witness ==
    /\ clean
    /\ op = "incr"
    /\ pc = "finish"
    /\ Listed = Files
    /\ unchanged0 = Files
    /\ \A f \in Files : get_chunks_by_file(chunks, f) # {}

\* C5: a full or incremental sync ends with an exception only when a storage
\* write failed; a read or a parse failure on one file never ends it.
C5_FailureIsolation ==
    (op \in {"full", "incr"} /\ result = "raised") => outcome = "writefail"

\* C6: when index_file on an already indexed file has ended, the index holds
\* either all previous chunks and nodes of the file or all new ones.
IndexFileEnded == outcome \in {"ok", "readfail", "parsefail", "writefail"}

C6_PerFileAtomicity ==
    (IndexFileEnded /\ old.chunks # {}) =>
        LET f == old.file
            c == get_chunks_by_file(chunks, f)
            n == get_nodes_by_file(graph, f)
        IN \/ c = old.chunks /\ n = old.nodes
           \/ /\ disk[f] # NoFile
              /\ ~ParseRaises(disk[f])
              /\ c = ParseChunks(f, disk[f])
              /\ n = ParseChunks(f, disk[f])

\* C7: a fingerprint entry is created or changed only in a state where the
\* chunks, nodes and relationships parsed from the file are in the index,
\* and it then becomes the hash of the file; an index_file that failed on
\* read, parse or write leaves the entry as it was on entry.
FpWritten(f) == f \in DOMAIN fp' /\ FpEntry(fp, f) # fp'[f]

C7_FingerprintAfterWrite ==
    [][/\ \A f \in Files : FpWritten(f) =>
              /\ disk[f] # NoFile
              /\ ~ParseRaises(disk[f])
              /\ get_chunks_by_file(chunks, f) = ParseChunks(f, disk[f])
              /\ get_nodes_by_file(graph, f) = ParseChunks(f, disk[f])
              /\ \A r \in Range(ParseRels(f, disk[f])) :
                    <<r.source, r.target>> \in DOMAIN graph.edges
              /\ fp'[f] = hash_file(disk[f])
       /\ (outcome' \in {"readfail", "parsefail", "writefail"} =>
              FpEntry(fp', old'.file) = old'.fp)]_vars

C7_Witness ==
    /\ outcome = "writefail"
    /\ old.fp # 0
    /\ old.fp # hash_file(disk[old.file])
    /\ FpEntry(fp, old.file) = old.fp

\* C8: after an incremental sync has returned, every file that had a
\* fingerprint on entry and is no longer listed has no fingerprint, no node
\* and no chunk, and deleted_files counts exactly those files.
Vanished == (DOMAIN fp0) \ Listed

C8_DeletedFiles ==
    (op = "incr" /\ result = "ok") =>
        /\ \A f \in Vanished :
              /\ f \notin DOMAIN fp
              /\ get_nodes_by_file(graph, f) = {}
              /\ get_chunks_by_file(chunks, f) = {}
        /\ stats.deleted_files = Cardinality(Vanished)

C8_Witness ==
    /\ op = "incr"
    /\ result = "ok"
    /\ stats.deleted_files = 1
    /\ stats.files_indexed = 1

\* C9: after a full sync has returned, the fingerprint table has exactly the
\* listed files that could be read, each with the hash of its content, and
\* chunks, nodes and relationships are exactly those parsed from these files.
Indexable == {f \in Listed : f \notin unreadable /\ ~ParseRaises(disk[f])}

FreshChunks == UNION {ParseChunks(f, disk[f]) : f \in Indexable}

FreshEdges ==
    UNION {{<<r.source, r.target>> : r \in Range(ParseRels(f, disk[f]))} : f \in Indexable}

C9_FullRebuild ==
    (op = "full" /\ result = "ok") =>
        /\ DOMAIN fp = Indexable
        /\ \A f \in Indexable : fp[f] = hash_file(disk[f])
        /\ DOMAIN chunks = FreshChunks
        /\ {i \in DOMAIN graph.nodes : graph.nodes[i] # NoPath} = FreshChunks
        /\ DOMAIN graph.edges = FreshEdges
        /\ DOMAIN graph.nodes = FreshChunks \cup UNION {{e[1], e[2]} : e \in FreshEdges}

C9_Witness ==
    /\ op = "full"
    /\ result = "ok"
    /\ \E f \in DOMAIN fp0 : f \notin Listed
    /\ \E f \in DOMAIN fp0 : f \in Listed /\ fp0[f] # hash_file(disk[f])
    /\ DOMAIN graph.edges # {}

\* C12: right after remove_file(f) the graph holds no relationship that an
\* index_chunks call for f added: none that leaves a node of f and none that
\* leaves the synthetic id file:<f>.
C12_AllRelationshipsRemoved ==
    AfterRemove =>
        OutEdges(graph, removed.ids \cup {<<"file", removed.file>>}) = {}

\* relationships of other files that point at an id which has no indexed
\* node and which is a chunk id of file f as it is on disk
DanglingInto(f) ==
    {e \in DOMAIN graph.edges :
        /\ graph.nodes[e[2]] = NoPath
        /\ disk[f] # NoFile
        /\ e[2] \in ParseChunks(f, disk[f])
        /\ e[1][2] # f}

HasDangling == \E e \in DOMAIN graph.edges : graph.nodes[e[2]] = NoPath

\* C13: while the graph holds relationships whose target has no indexed
\* node, search and find_path raise nothing; and every step of index_file(f)
\* keeps such a relationship of another file that points at a symbol of f,
\* and once the nodes of f are written the target is a node of f and
\* get_dependents(target, 1) holds the source.
C13_DanglingResolves ==
    /\ [](pc = "idle" /\ HasDangling =>
            /\ \A i \in DOMAIN chunks : search(chunks, graph)[i] # NetworkXError
            /\ \A e \in DOMAIN graph.edges :
                  /\ find_path(graph, e[1], e[2]) = <<e[1], e[2]>>
                  /\ e[1] \in get_dependents(graph, e[2], 1)
                  /\ e[2] \in get_dependencies(graph, e[1], 1))
    /\ [][(pc \in {"remove", "parse", "write"}) =>
            \A e \in DanglingInto(cur) :
                /\ e \in DOMAIN graph'.edges
                /\ graph'.edges[e] = graph.edges[e]
                /\ (pc' = "hash" =>
                       /\ graph'.nodes[e[2]] = cur
                       /\ e[1] \in get_dependents(graph', e[2], 1))]_vars

C13_Witness ==
    /\ pc = "hash"
    /\ <<"function", cur>> \notin old.nodes
    /\ <<"function", cur>> \in get_nodes_by_file(graph, cur)
    /\ <<<<"function", Other(cur)>>, <<"function", cur>>>> \in DOMAIN graph.edges
    /\ <<"function", Other(cur)>> \in get_nodes_by_file(graph, Other(cur))
    /\ old.chunks # {}

\* C24: when the Semantic Index or the saving of the graph fails while a
\* sync writes a file, the sync ends with the exception: it reports no
\* success, visits no further file, and the fingerprint of the file is what
\* it was before.
C24_StorageFailurePropagates ==
    outcome \in {"writefail", "savefail"} =>
        /\ result = "raised"
        /\ pc = "idle"
        /\ FpEntry(fp, old.file) = old.fp

C24_Witness ==
    /\ op = "incr"
    /\ outcome = "savefail"
    /\ old.fp # 0
    /\ old.fp # hash_file(disk[old.file])
    /\ \E f \in Listed : FpEntry(fp, f) # hash_file(disk[f]) /\ f # old.file

\* C26: when a sync has completed and, since the latest full sync, every
\* addition, modification or deletion of a file was followed by a completed
\* incremental sync, then after an incremental sync has returned the chunks,
\* the graph nodes and the relationships are those a full sync of the file
\* tree as it is now produces (the sets C9 establishes for full_index).
C26_IncrementalEqualsRebuild ==
    (chain = "synced" /\ op = "incr" /\ result = "ok") =>
        /\ DOMAIN chunks = FreshChunks
        /\ {i \in DOMAIN graph.nodes : graph.nodes[i] # NoPath} = FreshChunks
        /\ DOMAIN graph.edges = FreshEdges
        /\ DOMAIN graph.nodes = FreshChunks \cup UNION {{e[1], e[2]} : e \in FreshEdges}

(***************************************************************************)
(* The indexer while the file tree changes under it: an editor saves the  *)
(* file index_file is working on after read_text has returned and before  *)
(* hash_file is called for the fingerprint                                 *)
(***************************************************************************)
ConcurrentWrite(f, c) ==
    /\ pc \in {"remove", "parse", "write", "hash"}
    /\ f = cur
    /\ disk[f] \notin {NoFile, c}
    /\ disk' = [disk EXCEPT ![f] = c]
    /\ clean' = FALSE
    /\ chain' = "none"
    /\ UNCHANGED <<query, graph_file, watch, unreadable, indexVars, op, pc, queue, cur, content, stats, deleted,
                   result, old, outcome, removed, fp0, unchanged0>>

NextRace ==
    \/ Next
    \/ \E f \in Files, c \in Contents : ConcurrentWrite(f, c)

SpecRace == Init /\ [][NextRace]_vars

\* C27: whenever no index operation is in progress, every listed readable
\* file whose fingerprint entry equals the hash of its current content has
\* exactly the chunks and the nodes parsed from that content in the index.
C27_FingerprintMeansCurrent ==
    pc = "idle" =>
        \A f \in Listed \ unreadable :
            (FpEntry(fp, f) = hash_file(disk[f]) /\ ~ParseRaises(disk[f])) =>
                /\ get_chunks_by_file(chunks, f) = ParseChunks(f, disk[f])
                /\ get_nodes_by_file(graph, f) = ParseChunks(f, disk[f])

(***************************************************************************)
(* The KnowledgeGraph on its own: nodes and relationships are added and    *)
(* removed, and traversal queries are answered                             *)
(***************************************************************************)
MaxEdges == 3

MaxDepth == 2

GraphIds == {<<"file", "a">>, <<"function", "a">>, <<"function", "b">>}

GraphChunkIds == {<<"function", "a">>, <<"function", "b">>}

RelTypes == {"calls", "contains"}

indexerVars == <<disk, unreadable, fp, chunks, op, pc, queue, cur, content, stats,
                 deleted, result, old, outcome, removed, fp0, unchanged0, clean, chain,
                 graph_file, watch>>

\* KnowledgeGraph.add_node for the node of a chunk
GraphAddNode(id) ==
    /\ id \notin get_nodes_by_file(graph, id[2])
    /\ graph' = add_node(graph, id, id[2])
    /\ query' = NoQuery
    /\ UNCHANGED indexerVars

\* KnowledgeGraph.add_relationship
GraphAddRelationship(s, t, ty) ==
    /\ <<s, t>> \in DOMAIN graph.edges \/ Cardinality(DOMAIN graph.edges) < MaxEdges
    /\ graph' = add_relationship(graph, Rel(s, t, ty))
    /\ graph' # graph
    /\ query' = NoQuery
    /\ UNCHANGED indexerVars

\* KnowledgeGraph.remove_node
GraphRemoveNode(id) ==
    /\ id \in DOMAIN graph.nodes
    /\ graph' = remove_node(graph, id)
    /\ query' = NoQuery
    /\ UNCHANGED indexerVars

\* KnowledgeGraph.get_dependents(node_id, max_depth)
QueryDependents(id, d) ==
    /\ query' = [kind |-> "dependents", id |-> id, max_depth |-> d,
                 result |-> get_dependents(graph, id, d)]
    /\ UNCHANGED <<graph, indexerVars>>

\* KnowledgeGraph.get_dependencies(node_id, max_depth)
QueryDependencies(id, d) ==
    /\ query' = [kind |-> "dependencies", id |-> id, max_depth |-> d,
                 result |-> get_dependencies(graph, id, d)]
    /\ UNCHANGED <<graph, indexerVars>>

\* KnowledgeGraph.find_path(source_id, target_id)
QueryPath(s, t) ==
    /\ query' = [kind |-> "path", id |-> s, target |-> t, max_depth |-> 0,
                 result |-> find_path(graph, s, t)]
    /\ UNCHANGED <<graph, indexerVars>>

\* ImpactAnalyzer.get_dependency_chain(symbol_id, direction, max_depth)
QueryChain(id, direction, d) ==
    /\ query' = [kind |-> "chain", id |-> id, direction |-> direction, max_depth |-> d,
                 result |-> get_dependency_chain(graph, id, direction, d)]
    /\ UNCHANGED <<graph, indexerVars>>

\* KnowledgeGraph.get_relationships(node_id)
QueryRelationships(id) ==
    /\ query' = [kind |-> "relationships", id |-> id, max_depth |-> 0,
                 result |-> get_relationships(graph, id)]
    /\ UNCHANGED <<graph, indexerVars>>

NextGraph ==
    \/ \E id \in GraphChunkIds : GraphAddNode(id)
    \/ \E s \in GraphIds, t \in GraphIds, ty \in RelTypes : GraphAddRelationship(s, t, ty)
    \/ \E id \in GraphIds : GraphRemoveNode(id)
    \/ \E id \in GraphIds, d \in 1..MaxDepth : QueryDependents(id, d)
    \/ \E id \in GraphIds, d \in 1..MaxDepth : QueryDependencies(id, d)
    \/ \E s \in GraphIds, t \in GraphIds : QueryPath(s, t)
    \/ \E id \in GraphIds : QueryRelationships(id)
    \/ \E id \in GraphIds, dir \in {"dependents", "dependencies"}, d \in 1..MaxDepth :
          QueryChain(id, dir, d)

SpecGraph == Init /\ [][NextGraph]_vars

\* ids joined to n by a directed path of 1..k edges (dir "in": the path
\* ends at n, dir "out": it starts at n)
RECURSIVE WithinHops(_, _, _, _)
WithinHops(G, dir, n, k) ==
    IF k = 0 THEN {}
    ELSE LET nearer == WithinHops(G, dir, n, k - 1)
         IN nearer \cup UNION {neighbours(G, dir, m) : m \in nearer \cup {n}}

\* C10: get_dependents(id, maxDepth) returns exactly the ids from which id
\* is reachable by a path of 1..maxDepth edges, get_dependencies(id,
\* maxDepth) exactly the ids reachable from id by such a path, id excluded.
C10_TraversalDepthBound ==
    /\ query.kind = "dependents" /\ query.id \in DOMAIN graph.nodes =>
          query.result = WithinHops(graph, "in", query.id, query.max_depth) \ {query.id}
    /\ query.kind = "dependencies" /\ query.id \in DOMAIN graph.nodes =>
          query.result = WithinHops(graph, "out", query.id, query.max_depth) \ {query.id}

\* C11: on every graph, cycles and self-loops included, get_dependents and
\* get_dependencies return; what they return is a set of ids of the graph
\* (list(set): no id twice) that does not hold the start node and is not
\* larger than the node count.
C11_CycleSafeTraversal ==
    query.kind \in {"dependents", "dependencies"} =>
        /\ query.result \subseteq DOMAIN graph.nodes
        /\ query.id \notin query.result
        /\ Cardinality(query.result) <= Cardinality(DOMAIN graph.nodes)

C11_Witness ==
    /\ query.kind = "dependents"
    /\ <<query.id, query.id>> \in DOMAIN graph.edges
    /\ \E m \in DOMAIN graph.nodes :
          /\ m # query.id
          /\ <<m, query.id>> \in DOMAIN graph.edges
          /\ <<query.id, m>> \in DOMAIN graph.edges
          /\ m \in query.result

\* the (source, target, type) triples a graph holds
Triples(G) == {<<e[1], e[2], G.edges[e]>> : e \in DOMAIN G.edges}

\* C14: an add_relationship call keeps every (source, target, type) triple
\* the graph already held, so that two relationships with the same source
\* and target but different types are both in the graph afterwards.
C14_RelationshipUpsert ==
    [][(DOMAIN graph.edges \subseteq DOMAIN graph'.edges /\ graph'.edges # graph.edges) =>
          Triples(graph) \subseteq Triples(graph')]_vars

\* a sequence of ids that follows edges of G in their direction
IsPath(G, p) ==
    /\ Len(p) >= 1
    /\ \A i \in 1..Len(p) : p[i] \in DOMAIN G.nodes
    /\ \A i \in 1..(Len(p) - 1) : <<p[i], p[i + 1]>> \in DOMAIN G.edges

\* t can be reached from s along edges (s itself by the empty path)
Reaches(G, s, t) ==
    /\ s \in DOMAIN G.nodes
    /\ t \in DOMAIN G.nodes
    /\ (s = t \/ t \in WithinHops(G, "out", s, Cardinality(DOMAIN G.nodes)))

\* C15: find_path(source, target) returns None exactly when an id is not in
\* the graph or target cannot be reached from source; otherwise it returns
\* a path from source to target along the edges, and no path from source to
\* target has fewer hops.
C15_FindPathShortest ==
    query.kind = "path" =>
        LET p == query.result
            s == query.id
            t == query.target
        IN IF Reaches(graph, s, t)
           THEN /\ p # None
                /\ IsPath(graph, p)
                /\ p[1] = s
                /\ p[Len(p)] = t
                /\ (Len(p) > 1 => s # t /\ t \notin WithinHops(graph, "out", s, Len(p) - 2))
           ELSE p = None

C15_Witness ==
    /\ query.kind = "path"
    /\ Len(query.result) = 2
    /\ \E m \in DOMAIN graph.nodes :
          /\ m \notin {query.id, query.target}
          /\ <<query.id, m>> \in DOMAIN graph.edges
          /\ <<m, query.target>> \in DOMAIN graph.edges

(***************************************************************************)
(* ImpactAnalyzer and HybridStore.analyze_impact                           *)
(***************************************************************************)
Min(x, y) == IF x <= y THEN x ELSE y

\* Scores are counted in units of 1/300, the common denominator of the
\* divisors 10, 20, 30 and 50: 0.3 is 90, 0.2 is 60, 1.0 is 300.
ScoreUnit == 300

\* _calculate_impact_score without the cap on the file weight
_calculate_impact_score_uncapped(num_files, num_symbols, num_direct, num_transitive) ==
    LET file_weight == num_files * (ScoreUnit \div 10)
        symbol_weight == Min(num_symbols * (ScoreUnit \div 20), (2 * ScoreUnit) \div 10)
        direct_weight == Min(num_direct * (ScoreUnit \div 30), (3 * ScoreUnit) \div 10)
        transitive_weight == Min(num_transitive * (ScoreUnit \div 50), (2 * ScoreUnit) \div 10)
    IN Min(ScoreUnit, file_weight + symbol_weight + direct_weight + transitive_weight)

\* ImpactAnalyzer._calculate_impact_score
_calculate_impact_score(num_files, num_symbols, num_direct, num_transitive) ==
    LET file_weight == Min(num_files * (ScoreUnit \div 10), (3 * ScoreUnit) \div 10)
        symbol_weight == Min(num_symbols * (ScoreUnit \div 20), (2 * ScoreUnit) \div 10)
        direct_weight == Min(num_direct * (ScoreUnit \div 30), (3 * ScoreUnit) \div 10)
        transitive_weight == Min(num_transitive * (ScoreUnit \div 50), (2 * ScoreUnit) \div 10)
    IN Min(ScoreUnit, file_weight + symbol_weight + direct_weight + transitive_weight)

\* _determine_severity with strict comparisons
_determine_severity_strict(score) ==
    IF score * 10 > 8 * ScoreUnit THEN "critical"
    ELSE IF score * 10 > 6 * ScoreUnit THEN "high"
    ELSE IF score * 10 > 3 * ScoreUnit THEN "medium"
    ELSE "low"

\* ImpactAnalyzer._determine_severity
_determine_severity(score) ==
    IF score * 10 >= 8 * ScoreUnit THEN "critical"
    ELSE IF score * 10 >= 6 * ScoreUnit THEN "high"
    ELSE IF score * 10 >= 3 * ScoreUnit THEN "medium"
    ELSE "low"

\* files_of without the test against file_paths
files_of_all(G, ids, file_paths) ==
    {G.nodes[i] : i \in {j \in ids \cap DOMAIN G.nodes : G.nodes[j] # NoPath}}

\* the file paths of a set of node ids: get_node(id).file_path where it is
\* set and not among file_paths
files_of(G, ids, file_paths) ==
    {G.nodes[i] : i \in {j \in ids \cap DOMAIN G.nodes :
                            G.nodes[j] # NoPath /\ G.nodes[j] \notin file_paths}}

\* the nodes of the changed files
changed_symbols_of(G, file_paths) == UNION {get_nodes_by_file(G, f) : f \in file_paths}

\* ImpactAnalyzer.analyze_files
analyze_files(G, file_paths, max_depth) ==
    LET changed_symbols == changed_symbols_of(G, file_paths)
        directly_affected == UNION {get_dependents(G, n, 1) : n \in changed_symbols}
        transitively_affected ==
            UNION {(get_dependents(G, n, max_depth) \ get_dependents(G, n, 1)) \ {n} :
                      n \in changed_symbols}
        impact_score == _calculate_impact_score(Cardinality(file_paths),
                                                Cardinality(changed_symbols),
                                                Cardinality(directly_affected),
                                                Cardinality(transitively_affected))
    IN [changed_files |-> file_paths,
        changed_symbols |-> changed_symbols,
        directly_affected |-> directly_affected,
        transitively_affected |-> transitively_affected,
        affected_files |-> files_of(G, directly_affected \cup transitively_affected, file_paths),
        impact_score |-> impact_score,
        severity |-> _determine_severity(impact_score)]

\* HybridStore.analyze_impact
analyze_impact(G, file_paths, max_depth) ==
    LET changed_nodes == changed_symbols_of(G, file_paths)
        affected_nodes == UNION {get_dependents(G, n, max_depth) : n \in changed_nodes}
    IN [changed_files |-> file_paths,
        changed_symbols |-> changed_nodes,
        affected_nodes |-> affected_nodes,
        affected_files |-> files_of(G, affected_nodes, file_paths),
        affected_symbols |-> affected_nodes \ changed_nodes]

ImpactIds == {"function", "span2"} \X Files

\* ImpactAnalyzer.analyze_files(file_paths, max_depth)
AnalyzeFiles(file_paths, d) ==
    /\ query' = [kind |-> "analyze_files", files |-> file_paths, max_depth |-> d,
                 result |-> analyze_files(graph, file_paths, d)]
    /\ UNCHANGED <<graph, indexerVars>>

\* HybridStore.analyze_impact(file_paths, max_depth)
AnalyzeImpact(file_paths, d) ==
    /\ query' = [kind |-> "analyze_impact", files |-> file_paths, max_depth |-> d,
                 result |-> analyze_impact(graph, file_paths, d)]
    /\ UNCHANGED <<graph, indexerVars>>

NextImpact ==
    \/ \E id \in ImpactIds : GraphAddNode(id)
    \/ \E s \in ImpactIds, t \in ImpactIds : s # t /\ GraphAddRelationship(s, t, "calls")
    \/ \E id \in ImpactIds : GraphRemoveNode(id)
    \/ \E fs \in (SUBSET Files) \ {{}}, d \in 1..MaxDepth : AnalyzeFiles(fs, d)
    \/ \E fs \in (SUBSET Files) \ {{}}, d \in 1..MaxDepth : AnalyzeImpact(fs, d)

SpecImpact == Init /\ [][NextImpact]_vars

\* C16: directly_affected of analyze_files is exactly the set of ids with an
\* edge pointing at a node of the changed files; an id that reaches a changed
\* symbol only through two or more hops is not in it.
C16_DirectlyAffected ==
    query.kind = "analyze_files" =>
        query.result.directly_affected =
            UNION {predecessors(graph, n) \ {n} : n \in changed_symbols_of(graph, query.files)}

\* C17: in every result of analyze_files, transitively_affected and
\* directly_affected have no id in common, also when several changed
\* symbols share dependents.
C17_TransitiveMinusDirect ==
    query.kind = "analyze_files" =>
        query.result.transitively_affected \cap query.result.directly_affected = {}

\* the affected ids a result reports
AffectedIds ==
    IF query.kind = "analyze_files"
    THEN query.result.directly_affected \cup query.result.transitively_affected
    ELSE query.result.affected_symbols

\* C18: affected_files of analyze_files and of analyze_impact holds no path
\* of the input list, and it is exactly the set of file paths carried by the
\* affected ids that lie outside the input list.
C18_AffectedFiles ==
    query.kind \in {"analyze_files", "analyze_impact"} =>
        /\ query.result.affected_files \cap query.files = {}
        /\ query.result.affected_files =
              {f \in Files \ query.files : \E i \in AffectedIds : graph.nodes[i] = f}

C18_Witness ==
    /\ query.kind \in {"analyze_files", "analyze_impact"}
    /\ query.result.affected_files # {}
    /\ \E i \in AffectedIds : graph.nodes[i] \in query.files
    /\ \E i \in AffectedIds : graph.nodes[i] = NoPath

(***************************************************************************)
(* The impact score as a function of the four counts                       *)
(***************************************************************************)
MaxNumFiles == 4

MaxNumSymbols == 5

MaxNumDirect == 10

MaxNumTransitive == 11

Counts == [num_files : 0..MaxNumFiles, num_symbols : 0..MaxNumSymbols,
           num_direct : 0..MaxNumDirect, num_transitive : 0..MaxNumTransitive]

InitScore ==
    /\ disk = [f \in Files |-> NoFile]
    /\ unreadable = {}
    /\ fp = EmptyFn
    /\ chunks = EmptyFn
    /\ graph = EmptyGraph
    /\ op = "none"
    /\ pc = "idle"
    /\ queue = << >>
    /\ cur = NoFile
    /\ content = NoFile
    /\ stats = ZeroStats
    /\ deleted = {}
    /\ result = "none"
    /\ old = NoOld
    /\ outcome = "none"
    /\ removed = NoRemoved
    /\ fp0 = EmptyFn
    /\ unchanged0 = {}
    /\ clean = FALSE
    /\ chain = "none"
    /\ graph_file = save_graph(EmptyGraph)
    /\ watch = NoWatch
    /\ \E c \in Counts : query = [kind |-> "counts", counts |-> c]

\* the score and the severity stored the other way round on the scale
CalcScore_inverted ==
    /\ query.kind = "counts"
    /\ LET c == query.counts
           score == ScoreUnit - _calculate_impact_score(c.num_files, c.num_symbols,
                                                        c.num_direct, c.num_transitive)
       IN query' = [kind |-> "score", counts |-> c, result |-> score,
                    severity |-> _determine_severity(score)]
    /\ UNCHANGED <<graph, indexerVars>>

\* analyze_files: impact_score = self._calculate_impact_score(...), severity =
\* self._determine_severity(impact_score)
CalcScore ==
    /\ query.kind = "counts"
    /\ LET c == query.counts
           score == _calculate_impact_score(c.num_files, c.num_symbols,
                                            c.num_direct, c.num_transitive)
       IN query' = [kind |-> "score", counts |-> c, result |-> score,
                    severity |-> _determine_severity(score)]
    /\ UNCHANGED <<graph, indexerVars>>

NextScore == CalcScore

SpecScore == InitScore /\ [][NextScore]_vars

\* how many of the four counts are not zero
NonZero(c) ==
    Cardinality({k \in {"num_files", "num_symbols", "num_direct", "num_transitive"} : c[k] # 0})

\* C19: the score is min(1, wF + wS + wD + wT) with wF = min(files/10, 0.3),
\* wS = min(symbols/20, 0.2), wD = min(direct/30, 0.3), wT =
\* min(transitive/50, 0.2) (here in units of 1/300); it lies in [0, 1]; and
\* when only one count is not zero it is at most 0.3 and the severity is
\* not above medium.
C19_ImpactScoreFormula ==
    query.kind = "score" =>
        LET c == query.counts
        IN /\ query.result = Min(300, Min(30 * c.num_files, 90) + Min(15 * c.num_symbols, 60)
                                        + Min(10 * c.num_direct, 90)
                                        + Min(6 * c.num_transitive, 60))
           /\ query.result \in 0..300
           /\ (NonZero(c) <= 1 =>
                  query.result <= 90 /\ query.severity \in {"low", "medium"})

C19_Witness ==
    /\ query.kind = "score"
    /\ NonZero(query.counts) = 1
    /\ query.counts.num_files > 3
    /\ query.result = 90

\* C20: a change set with at least as many changed files, changed symbols,
\* directly and transitively affected nodes has a score that is at least as
\* large.
C20_ScoreMonotone ==
    query.kind = "score" =>
        \A b \in Counts :
            (/\ b.num_files >= query.counts.num_files
             /\ b.num_symbols >= query.counts.num_symbols
             /\ b.num_direct >= query.counts.num_direct
             /\ b.num_transitive >= query.counts.num_transitive) =>
                _calculate_impact_score(b.num_files, b.num_symbols, b.num_direct,
                                        b.num_transitive) >= query.result

C20_Witness ==
    /\ query.kind = "score"
    /\ query.counts = [num_files |-> 3, num_symbols |-> 1, num_direct |-> 9,
                       num_transitive |-> 1]
    /\ query.result = 201

\* C21: every score has exactly one severity: critical from 0.8 on, high in
\* [0.6, 0.8), medium in [0.3, 0.6) and low below 0.3 (240, 180 and 90 in
\* units of 1/300), so that 0.8, 0.6 and 0.3 themselves fall in the upper
\* bucket.
C21_SeverityBuckets ==
    query.kind = "score" =>
        /\ query.severity \in {"critical", "high", "medium", "low"}
        /\ (query.severity = "critical" <=> query.result >= 240)
        /\ (query.severity = "high" <=> query.result >= 180 /\ query.result < 240)
        /\ (query.severity = "medium" <=> query.result >= 90 /\ query.result < 180)
        /\ (query.severity = "low" <=> query.result < 90)

C21_Witness ==
    /\ query.kind = "score"
    /\ query.result = 180
    /\ query.severity = "high"
    /\ NonZero(query.counts) = 4

\* a path along the edges between a and b, in either orientation
Connects(G, p, a, b) ==
    /\ IsPath(G, p)
    /\ Len(p) >= 2
    /\ (p[1] = a /\ p[Len(p)] = b) \/ (p[1] = b /\ p[Len(p)] = a)

\* C22: get_dependency_chain(symbol, direction, maxDepth) holds, for every
\* id that reaches the symbol (dependents) or is reached from it
\* (dependencies) within maxDepth edges, a shortest path along the edges
\* that connects the symbol and that id.
C22_DependencyChain ==
    (query.kind = "chain" /\ query.id \in DOMAIN graph.nodes) =>
        LET dir == IF query.direction = "dependents" THEN "in" ELSE "out"
        IN \A n \in WithinHops(graph, dir, query.id, query.max_depth) \ {query.id} :
              \E p \in query.result :
                  /\ Connects(graph, p, query.id, n)
                  /\ n \notin WithinHops(graph, dir, query.id, Len(p) - 2)

\* C23: a read query for an id that is not in the graph raises nothing and
\* returns an empty or absent result.
C23_NotFoundIsValue ==
    /\ (query.kind \in {"dependents", "dependencies"} /\ query.id \notin DOMAIN graph.nodes) =>
          query.result = {}
    /\ (query.kind = "path" /\ {query.id, query.target} \ DOMAIN graph.nodes # {}) =>
          query.result = None
    /\ (query.kind = "chain" /\ query.id \notin DOMAIN graph.nodes) =>
          query.result = {}
    /\ (query.kind = "relationships" /\ query.id \notin DOMAIN graph.nodes) =>
          ~query.result.raised /\ query.result.rels = {}

(***************************************************************************)
(* Persistence of the graph: save writes the nodes and edges with all      *)
(* their attributes as JSON, _load reads them back.  Here a graph maps     *)
(* node ids and <<source, target>> pairs to attribute dictionaries.        *)
(***************************************************************************)
\* attribute values: JSON strings, the JSON null, and objects that JSON has
\* no representation for (a pathlib.Path, a datetime), with their str() text
Str(x) == [t |-> "str", s |-> x]

JsonNull == [t |-> "null", s |-> ""]

Obj(x) == [t |-> "object", s |-> x]

MetaValues == {Str("x"), Obj("x")}

NodeMetaKeys == {"owner", "id"}

EdgeMetaKeys == {"note"}

PersistIds == {"n1", "n2"}

\* {**d1, **d2}: the later dictionary wins
Merge(d1, d2) == Upsert(d1, d2)

\* KnowledgeGraph.add_node: self._graph.add_node(node.id, node_type=...,
\* file_path=..., **node.metadata); attributes of an existing node are updated
attrs_add_node(G, id, file_path, metadata) ==
    LET given == Merge([k \in {"node_type", "file_path"} |->
                          IF k = "node_type" THEN Str("function") ELSE file_path],
                       metadata)
        had == IF id \in DOMAIN G.nodes THEN G.nodes[id] ELSE EmptyFn
    IN [G EXCEPT !.nodes = Upsert(G.nodes, [i \in {id} |-> Merge(had, given)])]

\* KnowledgeGraph.add_relationship: self._graph.add_edge(source, target,
\* relation_type=..., line_number=..., **relationship.metadata)
attrs_add_relationship(G, source, target, metadata) ==
    LET given == Merge([k \in {"relation_type", "line_number"} |->
                          IF k = "relation_type" THEN Str("calls") ELSE JsonNull],
                       metadata)
        e == <<source, target>>
        had == IF e \in DOMAIN G.edges THEN G.edges[e] ELSE EmptyFn
    IN [nodes |-> Upsert([i \in {source, target} |-> EmptyFn], G.nodes),
        edges |-> Upsert(G.edges, [x \in {e} |-> Merge(had, given)])]

\* json.dump(..., default=str) followed by json.load, on one value: what
\* JSON cannot represent is written as its str() text and read as a string
json_value(v) == IF v.t = "object" THEN Str(v.s) ELSE v

\* the same on an attribute dictionary
json_dict(d) == [k \in DOMAIN d |-> json_value(d[k])]

\* KnowledgeGraph.save: nodes.append({"id": node_id, **attrs}),
\* edges.append({"source": source, "target": target, **attrs})
save(G) ==
    [nodes |-> {json_dict(Merge([k \in {"id"} |-> Str(i)], G.nodes[i])) : i \in DOMAIN G.nodes},
     edges |-> {json_dict(Merge([k \in {"source", "target"} |->
                                   IF k = "source" THEN Str(e[1]) ELSE Str(e[2])],
                                G.edges[e])) : e \in DOMAIN G.edges}]

\* _load: self._graph.add_node(node_data["id"], **rest) for every saved node
RECURSIVE load_nodes(_, _)
load_nodes(G, ns) ==
    IF ns = {} THEN G
    ELSE LET n == CHOOSE x \in ns : TRUE
             id == n["id"].s
             rest == Restrict(n, (DOMAIN n) \ {"id"})
             had == IF id \in DOMAIN G.nodes THEN G.nodes[id] ELSE EmptyFn
         IN load_nodes([G EXCEPT !.nodes = Upsert(G.nodes, [i \in {id} |-> Merge(had, rest)])],
                       ns \ {n})

\* _load: self._graph.add_edge(source, target, **rest) for every saved edge
RECURSIVE load_edges(_, _)
load_edges(G, es) ==
    IF es = {} THEN G
    ELSE LET x == CHOOSE y \in es : TRUE
             e == <<x["source"].s, x["target"].s>>
             rest == Restrict(x, (DOMAIN x) \ {"source", "target"})
             had == IF e \in DOMAIN G.edges THEN G.edges[e] ELSE EmptyFn
         IN load_edges([nodes |-> Upsert([i \in {e[1], e[2]} |-> EmptyFn], G.nodes),
                        edges |-> Upsert(G.edges, [y \in {e} |-> Merge(had, rest)])],
                       es \ {x})

\* KnowledgeGraph._load into a fresh DiGraph
_load(file) == load_edges(load_nodes(EmptyGraph, file.nodes), file.edges)

NoMeta == EmptyFn

NodeMetas == {NoMeta} \cup {[k \in {key} |-> v] : key \in NodeMetaKeys, v \in MetaValues}

EdgeMetas == {NoMeta} \cup {[k \in {key} |-> v] : key \in EdgeMetaKeys, v \in MetaValues}

InitPersist ==
    /\ disk = [f \in Files |-> NoFile]
    /\ unreadable = {}
    /\ fp = EmptyFn
    /\ chunks = EmptyFn
    /\ graph = EmptyGraph
    /\ op = "none"
    /\ pc = "idle"
    /\ queue = << >>
    /\ cur = NoFile
    /\ content = NoFile
    /\ stats = ZeroStats
    /\ deleted = {}
    /\ result = "none"
    /\ old = NoOld
    /\ outcome = "none"
    /\ removed = NoRemoved
    /\ fp0 = EmptyFn
    /\ unchanged0 = {}
    /\ clean = FALSE
    /\ chain = "none"
    /\ graph_file = save_graph(EmptyGraph)
    /\ watch = NoWatch
    /\ query = [kind |-> "built", g |-> EmptyGraph]

\* KnowledgeGraph.add_node(GraphNode(id, file_path, metadata))
PersistAddNode(id, metadata) ==
    /\ query.kind \in {"built", "loaded"}
    /\ query' = [kind |-> "built", g |-> attrs_add_node(query.g, id, Str("a"), metadata)]
    /\ UNCHANGED <<graph, indexerVars>>

\* KnowledgeGraph.add_relationship(Relationship(source, target, metadata))
PersistAddRelationship(source, target, metadata) ==
    /\ query.kind \in {"built", "loaded"}
    /\ query' = [kind |-> "built",
                 g |-> attrs_add_relationship(query.g, source, target, metadata)]
    /\ UNCHANGED <<graph, indexerVars>>

\* save(), then KnowledgeGraph(graph_path) in a fresh process
SaveAndLoad ==
    /\ query.kind = "built"
    /\ query' = [kind |-> "loaded", g |-> query.g, result |-> _load(save(query.g))]
    /\ UNCHANGED <<graph, indexerVars>>

NextPersist ==
    \/ \E id \in PersistIds, m \in NodeMetas : PersistAddNode(id, m)
    \/ \E s \in PersistIds, t \in PersistIds, m \in EdgeMetas :
          s # t /\ PersistAddRelationship(s, t, m)
    \/ SaveAndLoad

SpecPersist == InitPersist /\ [][NextPersist]_vars

\* C25: for every graph built with add_node and add_relationship, save
\* followed by _load into a fresh KnowledgeGraph gives the same node ids, the
\* same edges and the same value for every attribute of every node and
\* edge, metadata keys included.
C25_PersistenceRoundTrip ==
    query.kind = "loaded" => query.result = query.g


(***************************************************************************)
(* Several HybridStore instances on one project.  A long-lived store (the  *)
(* MCP server's _store, the watcher callback's store) loads the graph file *)
(* when it is created and keeps the graph in memory; run_sync creates a    *)
(* store of its own for every call.  All of them use the same Chroma       *)
(* directory, the same graph file and the same file_hashes.json.           *)
(* graph is the graph of the long-lived store, chunks the code collection, *)
(* graph_file the JSON file.                                               *)
(***************************************************************************)
StoreContents == {"plain", "calls"}

\* index_file(f, force=True) on a store whose data is st
index_file_force(st, f) ==
    LET c == disk[f]
        ch == store_remove_chunks(st.chunks, f)
        G == store_remove_nodes(st.graph, f)
        ids == ParseChunks(f, c)
        rels == ParseRels(f, c)
    IN [chunks |-> IF ids = {} THEN ch ELSE add_chunks(ch, ids, f),
        graph |-> IF ids = {} THEN G ELSE index_chunks_graph(G, ids, rels, f),
        fp |-> Upsert(st.fp, [x \in {f} |-> hash_file(c)])]

\* index_files(files, force=True)
RECURSIVE index_files_force(_, _)
index_files_force(st, fs) ==
    IF fs = << >> THEN st ELSE index_files_force(index_file_force(st, Head(fs)), Tail(fs))

\* full_index: store.clear(), save_file_hashes({}), index_files(all files)
full_index(st) ==
    index_files_force([chunks |-> EmptyFn, graph |-> store_clear_graph(st.graph),
                       fp |-> EmptyFn], iter_files)

\* incremental_index: remove_file for the deleted files, index_files for
\* the new and the changed ones
incremental_index(st) ==
    index_files_force([chunks |-> remove_files_chunks(st.chunks, deleted_files),
                       graph |-> remove_files_nodes(st.graph, deleted_files),
                       fp |-> Restrict(st.fp, (DOMAIN st.fp) \ deleted_files)],
                      files_to_index)

\* the MCP tool get_dependencies(file_path, "outgoing", depth)
server_get_dependencies(G, f, depth) ==
    [nodes |-> get_nodes_by_file(G, f),
     deps |-> UNION {get_dependencies(G, n, depth) : n \in get_nodes_by_file(G, f)}]

storeHistory == <<pc, queue, content, stats, deleted, result, old, outcome, removed, fp0,
                  clean, chain, unreadable, watch>>

\* an editor saves a file
EditFile(f, c) ==
    /\ disk[f] # c
    /\ disk' = [disk EXCEPT ![f] = c]
    /\ UNCHANGED <<query, graph_file, indexVars, op, cur, unchanged0, storeHistory>>

\* a file is deleted
TrashFile(f) ==
    /\ disk[f] # NoFile
    /\ disk' = [disk EXCEPT ![f] = NoFile]
    /\ UNCHANGED <<query, graph_file, indexVars, op, cur, unchanged0, storeHistory>>

\* run_server / create_watcher_callback: HybridStore(chroma_dir, graph_path)
OpenStore ==
    /\ graph' = load_graph(graph_file)
    /\ op' = "open"
    /\ cur' = NoFile
    /\ unchanged0' = {}
    /\ query' = NoQuery
    /\ UNCHANGED <<disk, graph_file, fp, chunks, storeHistory>>

\* run_sync(project, full) (the MCP tool sync_index, the sync command): a new
\* HybridStore, full_index or incremental_index on it, store.save()
RunSync(full) ==
    LET st == [chunks |-> chunks, graph |-> load_graph(graph_file), fp |-> fp]
        done == IF full THEN full_index(st) ELSE incremental_index(st)
    IN /\ chunks' = done.chunks
       /\ fp' = done.fp
       /\ graph_file' = save_graph(done.graph)
       /\ op' = IF full THEN "full" ELSE "incr"
       /\ unchanged0' = IF full THEN {}
                        ELSE {f \in Listed : FpEntry(fp, f) = hash_file(disk[f])}
       /\ cur' = NoFile
       /\ query' = NoQuery
       /\ UNCHANGED <<disk, graph, storeHistory>>

\* the watcher callback for [f] on the long-lived store: index_file(f,
\* force=True) when the file exists, remove_file(f) otherwise, store.save()
WatcherCallback(f) ==
    LET st == [chunks |-> chunks, graph |-> graph, fp |-> fp]
        done == IF disk[f] # NoFile
                THEN index_file_force(st, f)
                ELSE [chunks |-> store_remove_chunks(chunks, f),
                      graph |-> store_remove_nodes(graph, f),
                      fp |-> Restrict(fp, (DOMAIN fp) \ {f})]
    IN /\ chunks' = done.chunks
       /\ fp' = done.fp
       /\ graph' = done.graph
       /\ graph_file' = save_graph(done.graph)
       /\ op' = IF disk[f] # NoFile THEN "single" ELSE "remove"
       /\ cur' = f
       /\ unchanged0' = {}
       /\ query' = NoQuery
       /\ UNCHANGED <<disk, storeHistory>>

\* the MCP tool search_codebase: store.search(query, include_related=True)
ServerSearch ==
    /\ DOMAIN chunks # {}
    /\ query' = [kind |-> "search", result |-> search(chunks, graph)]
    /\ UNCHANGED <<disk, graph_file, indexVars, op, cur, unchanged0, storeHistory>>

\* the MCP tool get_dependencies
ServerGetDependencies(f) ==
    /\ query' = [kind |-> "file_dependencies", file |-> f,
                 result |-> server_get_dependencies(graph, f, MaxDepth)]
    /\ UNCHANGED <<disk, graph_file, indexVars, op, cur, unchanged0, storeHistory>>

NextStores ==
    \/ \E f \in Files, c \in StoreContents : EditFile(f, c)
    \/ \E f \in Files : TrashFile(f)
    \/ OpenStore
    \/ \E full \in BOOLEAN : RunSync(full)
    \/ \E f \in Files : WatcherCallback(f)
    \/ ServerSearch
    \/ \E f \in Files : ServerGetDependencies(f)

SpecStores == Init /\ [][NextStores]_vars

\* C28: when the latest store operation is a sync_index of the server, a
\* query through the server's store gives what the same query gives on the
\* graph that sync saved, and the graph used to enrich a search hit has the
\* node of every hit (get_relationships does not raise).
C28_ServerSeesOwnSync ==
    (op \in {"full", "incr"}) =>
        /\ query.kind = "search" =>
              /\ \A i \in DOMAIN query.result : ~query.result[i].raised
              /\ query.result = search(chunks, load_graph(graph_file))
        /\ query.kind = "file_dependencies" =>
              query.result = server_get_dependencies(load_graph(graph_file), query.file, MaxDepth)

\* nodes and relationships of file f in the JSON data of the graph file
PersistedOf(data, f) ==
    LET G == load_graph(data)
    IN [nodes |-> get_nodes_by_file(G, f),
        rels |-> OutRels(G, get_nodes_by_file(G, f) \cup {<<"file", f>>})]

\* C29: with the long-lived store open, when a run_sync has written the
\* graph file and the watcher callback then indexes a file, every other
\* file keeps its nodes and relationships in the graph file; and when the
\* callback has written the file and an incremental run_sync follows, every
\* file that sync skips keeps them.
C29_NoLostGraphUpdate ==
    [][/\ (op \in {"full", "incr"} /\ op' = "single") =>
            \A g \in Files \ {cur'} : PersistedOf(graph_file', g) = PersistedOf(graph_file, g)
       /\ (op = "single" /\ op' = "incr") =>
            \A g \in unchanged0' : PersistedOf(graph_file', g) = PersistedOf(graph_file, g)]_vars


(***************************************************************************)
(* The watcher: the observer thread records events in pending_changes      *)
(* while the main loop of FileWatcher.start calls process_pending.  Time   *)
(* is counted in polling periods of 500 ms.                                *)
(***************************************************************************)
MaxClock == 4

\* debounce_ms = 1000, two polling periods
debounce == 2

nonWatchVars == <<disk, unreadable, fp, chunks, graph, op, pc, queue, cur, content, stats,
                  deleted, result, old, outcome, removed, fp0, unchanged0, clean, chain,
                  graph_file, query>>

\* list(self.pending_changes.items())
pending_items(pending) ==
    LET order == SelectSeq(FileOrder, LAMBDA p : p \in DOMAIN pending)
    IN [i \in 1..Len(order) |-> <<order[i], pending[order[i]]>>]

\* time.time() moves on
Tick ==
    /\ watch.clock < MaxClock
    /\ watch' = [watch EXCEPT !.clock = @ + 1]
    /\ UNCHANGED nonWatchVars

\* on_modified / on_created / on_deleted, called on the observer thread at
\* any moment: self.pending_changes[str(path)] = time.time()
OnEvent(p) ==
    /\ watch' = [watch EXCEPT
                   !.pending_changes = Upsert(@, [x \in {p} |-> watch.clock]),
                   !.last_event = Upsert(@, [x \in {p} |-> watch.clock])]
    /\ UNCHANGED nonWatchVars

\* process_pending: now = time.time(), to_process = [], the list of the items
ProcessPendingStart ==
    /\ watch.pc = "idle"
    /\ watch' = [watch EXCEPT !.pc = "loop", !.now = watch.clock, !.to_process = << >>,
                              !.elapsed = EmptyFn,
                              !.items = pending_items(watch.pending_changes)]
    /\ UNCHANGED nonWatchVars

\* process_pending, one turn of the loop: the comparison uses the change
\* time of the listed item, del removes whatever entry the path has now;
\* elapsed records the time between the latest event recorded for the path
\* and now
ProcessPendingStep ==
    /\ watch.pc = "loop"
    /\ watch.items # << >>
    /\ LET path_str == Head(watch.items)[1]
           change_time == Head(watch.items)[2]
       IN /\ watch' = IF watch.now - change_time >= debounce
                      THEN [watch EXCEPT
                              !.items = Tail(@),
                              !.to_process = Append(@, path_str),
                              !.elapsed = Upsert(@, [x \in {path_str} |->
                                              watch.now - watch.last_event[path_str]]),
                              !.pending_changes =
                                  Restrict(@, (DOMAIN @) \ {path_str})]
                      ELSE [watch EXCEPT !.items = Tail(@)]
    /\ UNCHANGED nonWatchVars

\* process_pending: if to_process and self.on_change: self.on_change(to_process)
ProcessPendingDeliver ==
    /\ watch.pc = "loop"
    /\ watch.items = << >>
    /\ watch' = [watch EXCEPT
                   !.pc = "idle",
                   !.delivered = Restrict(watch.elapsed, Range(watch.to_process))]
    /\ UNCHANGED nonWatchVars

NextWatcher ==
    \/ Tick
    \/ \E p \in Files : OnEvent(p)
    \/ ProcessPendingStart
    \/ ProcessPendingStep
    \/ ProcessPendingDeliver

SpecWatcher == Init /\ [][NextWatcher]_vars

\* C30: every path process_pending hands to on_change had its latest
\* recorded event at least debounce_ms before the now of that call, also
\* when the observer thread records events while the loop runs.
C30_Debounce ==
    \A p \in DOMAIN watch.delivered : watch.delivered[p] >= debounce

=============================================================================
